---- MODULE Spec2Model ----
(***************************************************************************)
(* A model of ruwren (src/lib.rs), the Rust embedding layer around the     *)
(* Wren VM.  The module holds several state machines over one variable     *)
(* tuple, one per part of the library:                                     *)
(*                                                                         *)
(*   SpecErr     the error channel, wren_error, interpret and call_handle  *)
(*   SpecHandle  Handle / FunctionHandle ownership and release             *)
(*   SpecBind    the registry and wren_bind_foreign_method                 *)
(*   SpecForeign slots, foreign envelopes, the constructor trampoline,     *)
(*               set_slot_new_foreign, get_slot_foreign, finalization      *)
(*   SpecTramp   the three foreign trampolines and their panic boundary    *)
(*   SpecLife    VMConfig::build, VMWrapper clone / drop and Drop for VM   *)
(*   SpecSlot    the typed slot API: the slot setters and getters          *)
(*   SpecSig     FunctionSignature::as_wren_string and arity               *)
(*   SpecResolve wren_canonicalize, the resolve-module callback            *)
(*   SpecBorrow  VMWrapper operations, callbacks and the RefCell borrows   *)
(*   SpecSnapshot the registry of a VM and the host's own ModuleLibrary    *)
(*   SpecAlloc   wren_realloc, the allocator override                      *)
(*   SpecCallback wren_print and wren_load_module                          *)
(*   SpecHook    the trampolines and the process-wide panic hook           *)
(*                                                                         *)
(* Every specification moves only the variables of its own part.           *)
(***************************************************************************)
EXTENDS Integers, Sequences, FiniteSets, TLC

VARIABLES
    \* ---- error channel (SpecErr) ----
    error_channel,  \* the mpsc queue between UserData.error_channel and VM.error_recv
    op,             \* the VMWrapper operation in progress: "none", "interpret", "call_handle"
    vmPhase,        \* where the VM is inside wrenInterpret / wrenCall
    callNo,         \* number of interpret / call_handle operations started so far
    emitted,        \* history: the events wren_error queued during the current call
    lastResult,     \* what the last interpret / call_handle gave back to the host
    \* ---- handles (SpecHandle) ----
    handleTab,      \* per WrenHandle the VM created: its host-side owners and releases
    \* ---- registry (SpecBind, SpecForeign) ----
    library,        \* UserData.library: the registry snapshot of this VM
    lastBind,       \* the last bind-foreign-method query and its answer
    \* ---- slots, foreign objects, trampolines (SpecForeign) ----
    slots,          \* the VM's API stack: slots[i + 1] is slot i
    foreignHeap,    \* the ForeignObject envelopes the VM allocated
    boxes,          \* the native values boxed by Box::into_raw(Box::new(..))
    tramp,          \* the foreign trampoline the VM is in, if any
    fiber,          \* the current fiber's abort state
    lastCall,       \* the set_slot_new_foreign / get_slot_foreign call that has just
                    \* returned, with its result; None after any other step
    \* ---- lifecycle (SpecLife) ----
    built,          \* per VM built: its wrappers, its UserData and its WrenVM
    \* ---- pure functions (SpecSig, SpecResolve) ----
    lastFn,         \* the last call of as_wren_string / arity / wren_canonicalize, with its result
    \* ---- the borrow guard (SpecBorrow) ----
    borrowFlag,     \* the RefCell<VM>'s borrow state: the number of shared borrows, -1 when mutably borrowed
    inFlight,       \* the wrapper operations and VM callbacks that have not returned yet, outermost first
    \* ---- the host's registry (SpecSnapshot) ----
    original,       \* the ModuleLibrary the host handed to VMConfig::library, which the host keeps
    libraryRef,     \* the ModuleLibrary object UserData.library holds: 1 is the host's own object, 2 a clone
    builtFrom,      \* history: the value of the host's ModuleLibrary when the VM was built
    \* ---- The allocator override: the blocks of the Rust heap the VM has asked for ----
    blocks,         \* sequence of blocks handed out by std::alloc, [live, size]
    lastAlloc,      \* the last wren_realloc call, its arguments and its result
    \* ---- The print and load-module callbacks (SpecCallback) ----
    lastCallback,   \* the last wren_print / wren_load_module call and how it left
    printed,        \* the text the host's printer received last
    \* ---- The process-wide panic hook (SpecHook) ----
    hook,           \* the panic hook installed in the process
    nesting,         \* the trampolines in flight, innermost last, each with the hook it found
    lastExit        \* the hook before and after the outermost trampoline that returned last

errVars == <<error_channel, op, vmPhase, callNo, emitted, lastResult>>

handleVars == <<handleTab>>

bindVars == <<library, lastBind>>

foreignVars == <<slots, foreignHeap, boxes, tramp, fiber, lastCall>>

lifeVars == <<built>>

fnVars == <<lastFn>>

borrowVars == <<borrowFlag, inFlight>>

snapVars == <<original, libraryRef, builtFrom>>

allocVars == <<blocks, lastAlloc>>

callbackVars == <<lastCallback, printed>>

hookVars == <<hook, nesting, lastExit>>

vars == <<errVars, handleVars, bindVars, foreignVars, lifeVars, fnVars, borrowVars, snapVars, allocVars, callbackVars, hookVars>>

\* What each part of the model leaves alone.
NotErr == <<handleVars, bindVars, foreignVars, lifeVars, fnVars, borrowVars, snapVars, allocVars, callbackVars, hookVars>>

NotHandle == <<errVars, bindVars, foreignVars, lifeVars, fnVars, borrowVars, snapVars, allocVars, callbackVars, hookVars>>

NotBind == <<errVars, handleVars, foreignVars, lifeVars, fnVars, borrowVars, snapVars, allocVars, callbackVars, hookVars>>

Others == <<errVars, handleVars, bindVars, lifeVars, fnVars, borrowVars, snapVars, allocVars, callbackVars, hookVars>>

NotFn == <<errVars, handleVars, bindVars, foreignVars, lifeVars, borrowVars, snapVars, allocVars, callbackVars, hookVars>>

NotBorrow == <<errVars, handleVars, bindVars, foreignVars, lifeVars, fnVars, snapVars, allocVars, callbackVars, hookVars>>

NotSnapshot == <<errVars, handleVars, foreignVars, lifeVars, fnVars, borrowVars, allocVars, callbackVars, hookVars>>

NotAlloc == <<errVars, handleVars, bindVars, foreignVars, lifeVars, fnVars, borrowVars, snapVars, callbackVars, hookVars>>

NotCallback == <<errVars, handleVars, bindVars, foreignVars, lifeVars, fnVars, borrowVars, snapVars, allocVars, hookVars>>

NotHook == <<errVars, handleVars, bindVars, foreignVars, lifeVars, fnVars, borrowVars, snapVars, allocVars, callbackVars>>

NotLife == <<errVars, handleVars, bindVars, foreignVars, fnVars, borrowVars, snapVars, allocVars, callbackVars, hookVars>>

(***************************************************************************)
(* Bounds                                                                  *)
(***************************************************************************)
MaxCalls == 3       \* interpret / call_handle operations per behaviour
MaxCompile == 2     \* Compile events the VM emits during one call
MaxFrames == 2      \* StackTrace events the VM emits during one call
MaxHandles == 2     \* WrenHandles created per behaviour
MaxOwners == 3      \* host-side owners (Rc clones and Handle clones) made per WrenHandle
MaxArity == 2       \* largest arity of a Function signature in a method table
MaxSlots == 2       \* slots the host asks for (ensure_slots)
MaxEnvs == 2        \* foreign envelopes the VM allocates per behaviour
MaxVMs == 2         \* VMs built per behaviour
MaxLen == 2         \* bytes of a string or byte sequence written into a slot
MaxName == 2        \* characters of a method name
MaxDepth == 4       \* nested wrapper operations and callbacks
MaxBlocks == 3      \* blocks the allocator hands out
MaxSize == 2        \* largest size the VM asks for
MaxNest == 3        \* trampolines nested in one another

(***************************************************************************)
(* Error channel: WrenError, VMError                                       *)
(***************************************************************************)
\* WrenError (lib.rs 15-20).  An event's text is identified by the call that
\* emitted it and its position in that call's emissions.
WrenError(typ, c, i) == [typ |-> typ, call |-> c, idx |-> i]

NoError == [typ |-> "none", call |-> 0, idx |-> 0]

\* The value an operation hands to the host: Ok(()), Err(VMError::Compile),
\* Err(VMError::Runtime{error, frames}), or a panic unwinding into the host.
\* error = NoError stands for the empty string "" the runtime arm starts with.
Result(kind, error, frames) == [kind |-> kind, error |-> error, frames |-> frames]

\* The loop `while let Ok(err) = vm.error_recv.try_recv()` of the runtime-error
\* arm (lib.rs 666-676 and 699-709): Runtime events overwrite `error`,
\* StackTrace events are pushed on `frames`, any other event hits unreachable!()
\* after it has been taken off the channel.
RECURSIVE DrainRuntime(_, _, _)
DrainRuntime(q, error, frames) ==
    IF q = <<>>
    THEN [panic |-> FALSE, error |-> error, frames |-> frames, rest |-> q]
    ELSE LET err == Head(q) IN
         CASE err.typ = "Runtime"    -> DrainRuntime(Tail(q), err, frames)
           [] err.typ = "StackTrace" -> DrainRuntime(Tail(q), error, Append(frames, err))
           [] OTHER -> [panic |-> TRUE, error |-> error, frames |-> frames, rest |-> Tail(q)]

\* The runtime-error arm as a whole (lib.rs 665-681, 698-714).
RuntimeArm(q) ==
    LET d == DrainRuntime(q, NoError, <<>>) IN
    [result |-> IF d.panic THEN Result("Panic", NoError, <<>>)
                           ELSE Result("Runtime", d.error, d.frames),
     rest   |-> d.rest]

\* The compile-error arm of interpret (lib.rs 692-697): one try_recv; a Compile
\* event becomes the result, anything else (or an empty channel) is unreachable!().
CompileArm(q) ==
    IF q = <<>>
    THEN [result |-> Result("Panic", NoError, <<>>), rest |-> q]
    ELSE IF Head(q).typ = "Compile"
         THEN [result |-> Result("Compile", Head(q), <<>>), rest |-> Tail(q)]
         ELSE [result |-> Result("Panic", NoError, <<>>), rest |-> Tail(q)]

CountTyp(s, typ) == Cardinality({i \in 1..Len(s) : s[i].typ = typ})

\* wren_error (lib.rs 42-61): the callback sends one event on the channel.
wren_error(typ) ==
    LET ev == WrenError(typ, callNo, Len(emitted) + 1) IN
    /\ error_channel' = Append(error_channel, ev)
    /\ emitted' = Append(emitted, ev)

InitErr ==
    /\ error_channel = <<>>
    /\ op = "none"
    /\ vmPhase = "idle"
    /\ callNo = 0
    /\ emitted = <<>>
    /\ lastResult = Result("None", NoError, <<>>)

\* interpret up to the call of wrenInterpret (lib.rs 686-690).  A host that
\* caught the panic of an earlier call (std::panic::catch_unwind) can go on
\* using the wrapper: the RefCell borrow is released by the unwind.
InterpretBegin ==
    /\ op = "none" /\ callNo < MaxCalls
    /\ op' = "interpret" /\ vmPhase' = "compile"
    /\ callNo' = callNo + 1 /\ emitted' = <<>>
    /\ UNCHANGED <<error_channel, lastResult>>

\* call_handle up to the call of wrenCall (lib.rs 660-662): nothing is compiled.
CallHandleBegin ==
    /\ op = "none" /\ callNo < MaxCalls
    /\ op' = "call_handle" /\ vmPhase' = "run"
    /\ callNo' = callNo + 1 /\ emitted' = <<>>
    /\ UNCHANGED <<error_channel, lastResult>>

\* The VM reports a compile error of the interpreted source (one callback per
\* error found in the source).
ErrorCompileMain ==
    /\ op = "interpret" /\ vmPhase = "compile"
    /\ CountTyp(emitted, "Compile") < MaxCompile
    /\ wren_error("Compile")
    /\ UNCHANGED <<op, vmPhase, callNo, lastResult>>

\* The source compiled: the VM starts running it.
CompileDone ==
    /\ op = "interpret" /\ vmPhase = "compile" /\ emitted = <<>>
    /\ vmPhase' = "run"
    /\ UNCHANGED <<error_channel, op, callNo, emitted, lastResult>>

\* The running script imports a module that fails to compile: the VM reports
\* the module's compile errors and then fails the importing fiber.
ErrorCompileImport ==
    /\ op = "interpret" /\ vmPhase \in {"run", "import"}
    /\ CountTyp(emitted, "Compile") < MaxCompile
    /\ wren_error("Compile")
    /\ vmPhase' = "import"
    /\ UNCHANGED <<op, callNo, lastResult>>

\* The fiber fails: the VM reports the runtime error ...
ErrorRuntime ==
    /\ vmPhase \in {"run", "import"}
    /\ wren_error("Runtime")
    /\ vmPhase' = "trace"
    /\ UNCHANGED <<op, callNo, lastResult>>

\* ... followed by one StackTrace event per script frame of the fiber.
ErrorStackTrace ==
    /\ vmPhase = "trace"
    /\ CountTyp(emitted, "StackTrace") < MaxFrames
    /\ wren_error("StackTrace")
    /\ UNCHANGED <<op, vmPhase, callNo, lastResult>>

\* WREN_RESULT_SUCCESS (lib.rs 663, 691): Ok(()), the channel is not read.
ReturnSuccess ==
    /\ vmPhase = "run"
    /\ lastResult' = Result("Ok", NoError, <<>>)
    /\ op' = "none" /\ vmPhase' = "idle"
    /\ UNCHANGED <<error_channel, callNo, emitted>>

\* WREN_RESULT_COMPILE_ERROR from wrenInterpret (lib.rs 692-697).
InterpretReturnCompileError ==
    /\ op = "interpret" /\ vmPhase = "compile" /\ emitted # <<>>
    /\ LET a == CompileArm(error_channel) IN
         /\ lastResult' = a.result
         /\ error_channel' = a.rest
    /\ op' = "none" /\ vmPhase' = "idle"
    /\ UNCHANGED <<callNo, emitted>>

\* WREN_RESULT_RUNTIME_ERROR (lib.rs 665-681, 698-714).
ReturnRuntimeError ==
    /\ vmPhase = "trace"
    /\ LET a == RuntimeArm(error_channel) IN
         /\ lastResult' = a.result
         /\ error_channel' = a.rest
    /\ op' = "none" /\ vmPhase' = "idle"
    /\ UNCHANGED <<callNo, emitted>>

NextErr ==
    \/ InterpretBegin /\ UNCHANGED NotErr
    \/ CallHandleBegin /\ UNCHANGED NotErr
    \/ ErrorCompileMain /\ UNCHANGED NotErr
    \/ CompileDone /\ UNCHANGED NotErr
    \/ ErrorCompileImport /\ UNCHANGED NotErr
    \/ ErrorRuntime /\ UNCHANGED NotErr
    \/ ErrorStackTrace /\ UNCHANGED NotErr
    \/ ReturnSuccess /\ UNCHANGED NotErr
    \/ InterpretReturnCompileError /\ UNCHANGED NotErr
    \/ ReturnRuntimeError /\ UNCHANGED NotErr

(***************************************************************************)
(* Claims about the error channel                                          *)
(***************************************************************************)
Returned == op = "none" /\ lastResult.kind # "None"

ThisCall(typ) == SelectSeq(emitted, LAMBDA e : e.typ = typ)

\* C1: whenever interpret / call_handle returns a failure (Compile or Runtime),
\* no error event remains queued on the error channel after it returns.
C1_ChannelEmptyAfterFailure ==
    (Returned /\ lastResult.kind \in {"Compile", "Runtime"}) => error_channel = <<>>

\* C2: interpret and call_handle always return Ok or Err(VMError) to the host;
\* they never end by a panic unwinding into the host.
C2_NeverPanics ==
    Returned => lastResult.kind \in {"Ok", "Compile", "Runtime"}

\* C10: when interpret / call_handle returns Err(VMError::Runtime), its frames
\* are exactly the StackTrace events the VM emitted during that same call, in
\* emission order, and its error text is the message of the Runtime event of
\* that same call; no event of an earlier call appears in the result.  (That
\* the list is non-empty as well needs the VM to emit at least one frame, which
\* it does not do for a fiber that holds no script frame.)
C10_RuntimeResultIsOfThisCall ==
    (Returned /\ lastResult.kind = "Runtime") =>
        /\ lastResult.frames = ThisCall("StackTrace")
        /\ ThisCall("Runtime") # <<>>
        /\ lastResult.error = ThisCall("Runtime")[Len(ThisCall("Runtime"))]
        /\ \A i \in 1..Len(lastResult.frames) : lastResult.frames[i].call = callNo


(***************************************************************************)
(* Handles: Handle, FunctionHandle, get_slot_handle, make_call_handle      *)
(***************************************************************************)
\* One entry per WrenHandle the VM handed out.  `strong` is the strong count of
\* the Rc<Handle> / Rc<FunctionHandle> the wrapper returned, `clones` the number
\* of Handle values made from it by the derived Clone (lib.rs 179, 195), each
\* holding the same raw pointer; `made` counts the owners ever created and
\* `released` the calls of wrenReleaseHandle on the raw pointer.
NewHandle(kind) ==
    [kind |-> kind, strong |-> 1, clones |-> 0, made |-> 1, released |-> 0]

Owners(h) == h.strong + h.clones

\* impl Drop for Handle (lib.rs 186-192): every Handle value that goes out of
\* scope calls wrenReleaseHandle on its raw pointer.
DropHandle(h) == [h EXCEPT !.released = @ + 1]

InitHandle ==
    handleTab = <<>>

\* VMWrapper::get_slot_handle (lib.rs 723-731).
get_slot_handle ==
    /\ Len(handleTab) < MaxHandles
    /\ handleTab' = Append(handleTab, NewHandle("value"))

\* VMWrapper::make_call_handle / VM::make_call_handle (lib.rs 739-741, 1119-1128).
make_call_handle ==
    /\ Len(handleTab) < MaxHandles
    /\ handleTab' = Append(handleTab, NewHandle("call"))

\* Rc::clone of the returned Rc: one more strong owner of the same Handle.
RcClone(i) ==
    /\ handleTab[i].strong > 0 /\ handleTab[i].made < MaxOwners
    /\ handleTab' = [handleTab EXCEPT ![i].strong = @ + 1, ![i].made = @ + 1]

\* An Rc goes out of scope; the last one drops the Handle it holds.
RcDrop(i) ==
    /\ handleTab[i].strong > 0
    /\ LET h == [handleTab[i] EXCEPT !.strong = @ - 1] IN
       handleTab' = [handleTab EXCEPT ![i] = IF h.strong = 0 THEN DropHandle(h) ELSE h]

\* #[derive(Clone)] on Handle and FunctionHandle (lib.rs 179-184, 195-196):
\* (*rc).clone() gives a second Handle value with the same raw pointer.
HandleClone(i) ==
    /\ Owners(handleTab[i]) > 0 /\ handleTab[i].made < MaxOwners
    /\ handleTab' = [handleTab EXCEPT ![i].clones = @ + 1, ![i].made = @ + 1]

\* A cloned Handle value goes out of scope.
HandleCloneDrop(i) ==
    /\ handleTab[i].clones > 0
    /\ handleTab' = [handleTab EXCEPT ![i] = DropHandle([@ EXCEPT !.clones = @ - 1])]

NextHandle ==
    \/ get_slot_handle /\ UNCHANGED NotHandle
    \/ make_call_handle /\ UNCHANGED NotHandle
    \/ \E i \in 1..Len(handleTab) : RcClone(i) /\ UNCHANGED NotHandle
    \/ \E i \in 1..Len(handleTab) : RcDrop(i) /\ UNCHANGED NotHandle
    \/ \E i \in 1..Len(handleTab) : HandleClone(i) /\ UNCHANGED NotHandle
    \/ \E i \in 1..Len(handleTab) : HandleCloneDrop(i) /\ UNCHANGED NotHandle

\* C3: wrenReleaseHandle is invoked on every VM-side reference exactly once
\* over any sequence of host operations on its Handle / FunctionHandle (sharing
\* through Rc, cloning the Handle value), and only after its last host-side
\* owner has gone out of scope.
C3_ReleasedExactlyOnce ==
    \A i \in 1..Len(handleTab) :
        /\ handleTab[i].released <= 1
        /\ (handleTab[i].released > 0 => Owners(handleTab[i]) = 0)
        /\ (Owners(handleTab[i]) = 0 => handleTab[i].released = 1)

(***************************************************************************)
(* Registry: FunctionSignature, MethodPointer, RuntimeClass, Module,       *)
(* ModuleLibrary, wren_bind_foreign_method                                 *)
(***************************************************************************)
\* Strings a signature is made of are sequences of characters, so that the
\* canonical string is computed and two signatures can share one.
None == [some |-> FALSE]

Some(v) == [some |-> TRUE, val |-> v]

\* FunctionSignature (lib.rs 608-632).
Function(name, arity) == [kind |-> "Function", name |-> name, arity |-> arity]

Getter(name) == [kind |-> "Getter", name |-> name, arity |-> 0]

Setter(name) == [kind |-> "Setter", name |-> name, arity |-> 1]

RECURSIVE JoinUnderscores(_), JoinTrailing(_)
\* A join that puts the separator after every element.
JoinTrailing(arity) ==
    IF arity = 0 THEN <<>>
    ELSE JoinTrailing(arity - 1) \o <<"_", ",">>

\* vec!["_".to_string(); arity].join(",") (lib.rs 636).
JoinUnderscores(arity) ==
    IF arity = 0 THEN <<>>
    ELSE IF arity = 1 THEN <<"_">>
    ELSE JoinUnderscores(arity - 1) \o <<",", "_">>

\* FunctionSignature::as_wren_string (lib.rs 634-640).
as_wren_string(sig) ==
    CASE sig.kind = "Function" -> sig.name \o <<"(">> \o JoinUnderscores(sig.arity) \o <<")">>
      [] sig.kind = "Getter"   -> sig.name
      [] sig.kind = "Setter"   -> sig.name \o <<"=", "(", "_", ")">>

\* MethodPointer (lib.rs 240-245).
MethodPointer(is_static, signature, pointer) ==
    [is_static |-> is_static, signature |-> signature, pointer |-> pointer]

\* The host types registered as foreign classes; a type's TypeId is its name.
Types == {"Counter", "Point"}

\* ClassObject::generate_pointers of each host type (lib.rs 360-368): the
\* ordered method table.  Counter's table holds entries that share a canonical
\* string (Setter v and Function v=/1; two Getter v) and entries that differ
\* only in is_static.
generate_pointers(C) ==
    IF C = "Counter"
    THEN << MethodPointer(FALSE, Function(<<"f">>, 0), "Counter::f0"),
            MethodPointer(TRUE,  Function(<<"f">>, 0), "Counter::static_f0"),
            MethodPointer(FALSE, Getter(<<"v">>), "Counter::v"),
            MethodPointer(FALSE, Function(<<"v", "=">>, 1), "Counter::v_eq"),
            MethodPointer(FALSE, Setter(<<"v">>), "Counter::set_v"),
            MethodPointer(FALSE, Function(<<"f">>, MaxArity), "Counter::fn"),
            MethodPointer(FALSE, Getter(<<"v">>), "Counter::v_again") >>
    ELSE << MethodPointer(TRUE,  Getter(<<"f">>), "Point::static_f"),
            MethodPointer(FALSE, Function(<<"f">>, 1), "Point::f1"),
            MethodPointer(TRUE,  Getter(<<"f", "(", ")">>), "Point::static_f_paren") >>

\* ClassObjectPointers (lib.rs 235-238) wraps the table.
ClassObjectPointers(C) == [function_pointers |-> generate_pointers(C)]

\* Module::class::<C>(name) (lib.rs 254-265): insert, replacing an entry of
\* the same name.
RuntimeClass(C) ==
    [construct |-> <<"_constructor", C>>, destruct |-> <<"_destructor", C>>,
     methods |-> ClassObjectPointers(C), type_id |-> C]

Module_new == [classes |-> <<>>]

Module_class(modl, name, C) ==
    [classes |-> [c \in (DOMAIN modl.classes) \cup {name} |->
                    IF c = name THEN RuntimeClass(C) ELSE modl.classes[c]]]

\* ModuleLibrary::new / ModuleLibrary::module (lib.rs 205-213).
ModuleLibrary_new == [modules |-> <<>>]

ModuleLibrary_module(lib, name, modl) ==
    [modules |-> [m \in (DOMAIN lib.modules) \cup {name} |->
                    IF m = name THEN modl ELSE lib.modules[m]]]

\* ModuleLibrary::get_foreign_class (lib.rs 215-217).
get_foreign_class(lib, module, class) ==
    IF module \in DOMAIN lib.modules
    THEN IF class \in DOMAIN lib.modules[module].classes
         THEN Some(lib.modules[module].classes[class])
         ELSE None
    ELSE None

\* Iterator::find over function_pointers (lib.rs 77-79): the first entry the
\* predicate accepts.
RECURSIVE FindMethod(_, _, _), FindMethodAnyStatic(_, _, _)
\* A find whose predicate forgets `mp.is_static == is_static`.
FindMethodAnyStatic(pointers, signature, is_static) ==
    IF pointers = <<>> THEN None
    ELSE IF as_wren_string(Head(pointers).signature) = signature
         THEN Some(Head(pointers).pointer)
         ELSE FindMethodAnyStatic(Tail(pointers), signature, is_static)

FindMethod(pointers, signature, is_static) ==
    IF pointers = <<>> THEN None
    ELSE IF /\ as_wren_string(Head(pointers).signature) = signature
            /\ Head(pointers).is_static = is_static
         THEN Some(Head(pointers).pointer)
         ELSE FindMethod(Tail(pointers), signature, is_static)

\* wren_bind_foreign_method (lib.rs 69-86) as a function of the registry.
BindForeignMethod(lib, module, class, is_static, signature) ==
    IF lib.some
    THEN LET rc == get_foreign_class(lib.val, module, class) IN
         IF rc.some THEN FindMethod(rc.val.methods.function_pointers, signature, is_static)
                    ELSE None
    ELSE None

ModuleNames == {"main", "geo"}

ClassNames == {"A", "B"}

\* Every module the host can build over ClassNames ("-" marks a class name
\* that is not registered), and every library over ModuleNames.
ModuleOf(a) ==
    [classes |-> [c \in {x \in ClassNames : a[x] # "-"} |-> RuntimeClass(a[c])]]

Modules == {ModuleOf(a) : a \in [ClassNames -> Types \cup {"-"}]}

LibraryOf(b) ==
    [modules |-> [m \in {x \in ModuleNames : b[x].some} |-> b[m].val]]

Libraries ==
    {None} \cup {Some(LibraryOf(b)) : b \in [ModuleNames -> {None} \cup {Some(m) : m \in Modules}]}

\* The strings the VM asks for: the canonical string of every signature over
\* the names in use, and strings that are the canonical string of none.
SigNames == {<<"f">>, <<"v">>, <<"v", "=">>}

Signatures ==
    {Function(n, a) : n \in SigNames, a \in 0..MaxArity}
        \cup {Getter(n) : n \in SigNames} \cup {Setter(n) : n \in SigNames}

QueryStrings ==
    {as_wren_string(sg) : sg \in Signatures} \cup {<<"f", "(">>, <<"f", "(", "_", ",", ")">>, <<>>}

\* VMConfig::library / no_library and build (lib.rs 791-799, 830-836): the
\* registry is moved into UserData; VMConfig::new() has none.
InitBind(libs) ==
    /\ library \in libs
    /\ lastBind = None

\* The VM meets an unresolved foreign method and asks the host for it.
wren_bind_foreign_method(module, class, is_static, sgn) ==
    /\ lastBind = None
    /\ lastBind' = Some([module |-> module, class |-> class, is_static |-> is_static,
                         sgn |-> sgn,
                         pointer |-> BindForeignMethod(library, module, class, is_static, sgn)])
    /\ UNCHANGED library

\* The VM takes the answer and goes on.
BindReturn ==
    /\ lastBind.some
    /\ lastBind' = None
    /\ UNCHANGED library

NextBind ==
    \/ \E m \in ModuleNames \cup {"other"}, c \in ClassNames \cup {"Other"},
          st \in BOOLEAN, sg \in QueryStrings :
         wren_bind_foreign_method(m, c, st, sg) /\ UNCHANGED NotBind
    \/ BindReturn /\ UNCHANGED NotBind

\* The method table a query is answered from: empty when the registry, the
\* module or the class is missing.
MethodTable(q) ==
    IF /\ library.some
       /\ q.module \in DOMAIN library.val.modules
       /\ q.class \in DOMAIN library.val.modules[q.module].classes
    THEN library.val.modules[q.module].classes[q.class].methods.function_pointers
    ELSE <<>>

\* The entries of the table that match a query.
Matching(q) ==
    {i \in 1..Len(MethodTable(q)) :
        /\ as_wren_string(MethodTable(q)[i].signature) = q.sgn
        /\ MethodTable(q)[i].is_static = q.is_static}

NullVal == [kind |-> "Null"]

StringVal(str) == [kind |-> "String", str |-> str]

\* A class object of the script, and any other object the VM has no slot
\* type for (a map, a range, a function, an instance).
ClassVal(module, class) == [kind |-> "Class", module |-> module, class |-> class]

ObjectVal == [kind |-> "Object"]

ForeignVal(e) == [kind |-> "Foreign", env |-> e]

\* VM::get_slot_type (lib.rs 989-1000) over wrenGetSlotType: everything that is
\* not a number, bool, list, null, string or foreign is WREN_TYPE_UNKNOWN.
get_slot_type(v) ==
    IF v.kind \in {"Num", "Bool", "List", "Null", "String", "Foreign"}
    THEN v.kind ELSE "Unknown"

\* VM::ensure_slots (lib.rs 891-895): the API stack grows to `count` slots.
RECURSIVE ensure_slots(_, _)
ensure_slots(stack, count) ==
    IF Len(stack) >= count THEN stack ELSE ensure_slots(Append(stack, NullVal), count)

\* ForeignObject<T> (lib.rs 279-283) in VM memory.  wren_realloc hands the VM
\* zeroed memory (alloc_zeroed, lib.rs 29): a fresh envelope has a null object
\* pointer and the all-zero type tag, which is the TypeId of no type.  `freed`
\* says the VM has finalized and freed it, `finalizer` that the object's class
\* is a foreign class the registry bound, whose finalize function is the
\* _destructor of the host type (wren_bind_foreign_class, lib.rs 99-103).
ZeroTag == "zero"

FreshEnvelope == [type_id |-> ZeroTag, object |-> 0, freed |-> FALSE, finalizer |-> TRUE]

\* std::ptr::write(wptr, ForeignObject { object, type_id }) (lib.rs 334-337, 1101).
WriteEnvelope(heap, e, object, type_id) ==
    [heap EXCEPT ![e].object = object, ![e].type_id = type_id]

\* Box::into_raw(Box::new(object)) (lib.rs 335, 1086): a native value on the
\* heap, identified by its index in `boxes`; `drops` counts how often it was
\* dropped.
NewBox == [drops |-> 0]

\* The downcast of get_slot_foreign_mut that trusts the envelope without
\* comparing its type tag.
DowncastUnchecked(fo, T) ==
    IF fo.object # 0 THEN Some(fo.object) ELSE None

\* The downcast of VM::get_slot_foreign_mut (lib.rs 1052-1059): the object
\* pointer as a reference when the tags agree (as_mut of a null pointer is None).
Downcast(fo, T) ==
    IF fo.type_id = T
    THEN IF fo.object # 0 THEN Some(fo.object) ELSE None
    ELSE None

\* VM::get_slot_foreign_mut / get_slot_foreign (lib.rs 1044-1064) on a slot value.
\* wrenGetSlotForeign is called whatever the slot holds; for a value that is
\* not a foreign object it reinterprets the value, and what comes back is any
\* of the outcomes in the set this operator returns.
GetSlotForeignOutcomes(stack, heap, T, slot) ==
    LET v == stack[slot + 1] IN
    IF v.kind = "Foreign" THEN {Downcast(heap[v.env], T)}
    ELSE {None, Some(0)}

\* Payloads of a panic (Box<dyn Any + Send>): a String (panic! with arguments,
\* expect), a &str (panic! with a literal) or any other value (panic_any).
Payload(typ, msg) == [typ |-> typ, msg |-> msg]

Payloads == {Payload("String", "boom"), Payload("&str", "bang"), Payload("other", "42")}

\* The payload of the failed expect() of the instance trampoline (lib.rs
\* 449-450): a String built by format!.
ReceiverPanic == Payload("String", "Tried to call f of Counter on non-Counter type")

NonStringMessage == "Non-string panic message"

\* The message a handler that forgets the &str downcast would extract.
ErrStringNoStr(payload) ==
    IF payload.typ = "String" THEN payload.msg ELSE NonStringMessage

\* The err_string of the three trampolines (lib.rs 318-324, 423-429, 455-461).
ErrString(payload) ==
    IF payload.typ = "String" THEN payload.msg
    ELSE IF payload.typ = "&str" THEN payload.msg
    ELSE NonStringMessage

\* What the host body of a trampoline does: return, or panic with a payload.
BodyOk == [panic |-> FALSE]

BodyPanic(payload) == [panic |-> TRUE, payload |-> payload]

BodyOutcomes == {BodyOk} \cup {BodyPanic(p) : p \in Payloads}

\* std::panic::catch_unwind around the host body (lib.rs 315, 420, 447): a
\* panic of the body becomes Err(payload); nothing unwinds further.
catch_unwind(outcome) ==
    IF outcome.panic THEN [ok |-> FALSE, err |-> outcome.payload, unwinding |-> FALSE]
    ELSE [ok |-> TRUE, err |-> Payload("none", ""), unwinding |-> FALSE]

Idle == [pc |-> "idle"]

NotAborted == [aborted |-> FALSE]

\* VM::abort_fiber (lib.rs 1130-1134): the fiber's error is the value of the slot.
abort_fiber(stack, slot) == [aborted |-> TRUE, error |-> stack[slot + 1]]

InitForeign ==
    /\ slots = <<NullVal>>
    /\ foreignHeap = <<>>
    /\ boxes = <<>>
    /\ tramp = Idle
    /\ fiber = NotAborted
    /\ lastCall = None

\* The process ended inside the VM or on a wild write.
Crashed ==
    /\ lastCall.some
    /\ lastCall.val.op = "set_slot_new_foreign"
    /\ lastCall.val.result \in {"Crash", "Abort"}

\* The call of the host returns to its caller, unless the process ended in it.
CallReturn ==
    /\ lastCall.some /\ ~Crashed
    /\ lastCall' = None
    /\ UNCHANGED <<slots, foreignHeap, boxes, tramp, fiber>>

\* Host code holds a &VM: at top level through VMWrapper::execute (lib.rs
\* 719-721), or as the body of a foreign method or initializer.
HostRuns == tramp.pc \in {"idle", "body"} /\ lastCall = None

\* VM::set_slot_null (lib.rs 915-919).
set_slot_null(slot) ==
    /\ HostRuns /\ slot < Len(slots)
    /\ slots' = [slots EXCEPT ![slot + 1] = NullVal]
    /\ lastCall' = None
    /\ UNCHANGED <<foreignHeap, boxes, tramp, fiber>>

\* VM::set_slot_string (lib.rs 927-932).
set_slot_string(slot, str) ==
    /\ HostRuns /\ slot < Len(slots)
    /\ slots' = [slots EXCEPT ![slot + 1] = StringVal(str)]
    /\ lastCall' = None
    /\ UNCHANGED <<foreignHeap, boxes, tramp, fiber>>

\* VM::get_slot_foreign::<T> / get_slot_foreign_mut::<T> (lib.rs 1044-1064).
get_slot_foreign(T, slot) ==
    /\ HostRuns /\ slot < Len(slots)
    /\ \E r \in GetSlotForeignOutcomes(slots, foreignHeap, T, slot) :
         lastCall' = Some([op |-> "get_slot_foreign", T |-> T, slot |-> slot,
                           found |-> r])
    /\ UNCHANGED <<slots, foreignHeap, boxes, tramp, fiber>>

\* What set_slot_new_foreign leaves behind: the API stack, the envelopes, the
\* boxes, the result, the reference handed back (0 for none), whether the
\* envelope was written through a null pointer, and what became of `object`.
SendOutcome(stack, heap, bx, result, ref, nullWrite, object) ==
    [slots |-> stack, foreignHeap |-> heap, boxes |-> bx, result |-> result,
     ref |-> ref, nullWrite |-> nullWrite, object |-> object]

\* VM::set_slot_new_foreign::<T>(module, class, object, slot) (lib.rs
\* 1070-1117).  `var` is the value of the script variable `class` of `module`
\* that get_variable loads into slot 0 (Null when the script has not defined
\* it); `vmAlloc` says whether wrenSetSlotNewForeign returns memory.  Two paths
\* leave defined behaviour, and every outcome of them is in the set: the write
\* through a null wptr (lib.rs 1101; the process dies on it, or the write is
\* dropped and the None arm is taken), and wrenSetSlotNewForeign on a slot 0
\* that holds an object which is not a class (the VM uses it as a class, or
\* stops on its assertion).
SendOutcomes(lib, stack, heap, bx, module, class, T, slot, var, vmAlloc) ==
    LET stack1 == ensure_slots(stack, slot + 1)
        rc == IF lib.some THEN get_foreign_class(lib.val, module, class) ELSE None
    IN
    IF ~rc.some
    THEN {SendOutcome(stack1, heap, bx, "NoForeignClass", 0, FALSE, "dropped")}
    ELSE IF rc.val.type_id # T
    THEN {SendOutcome(stack1, heap, bx, "ClassMismatch", 0, FALSE, "dropped")}
    ELSE
      LET bx1 == Append(bx, NewBox)
          b == Len(bx1)
          stack2 == [stack1 EXCEPT ![1] = var]
          heap1 == Append(heap, FreshEnvelope)
          e == Len(heap1)
          stack3 == [stack2 EXCEPT ![slot + 1] = ForeignVal(e)]
          heap2 == WriteEnvelope(heap1, e, b, T)
          heap3 == [heap2 EXCEPT ![e].finalizer = FALSE]
      IN
      CASE get_slot_type(var) = "Null" ->
             {SendOutcome(stack2, heap, bx1, "NoWrenClass", 0, FALSE, "leaked")}
        [] get_slot_type(var) = "Unknown" ->
             IF ~vmAlloc
             THEN {SendOutcome(stack2, heap, bx1, r, 0, TRUE, "leaked") :
                      r \in {"NoMemory", "Crash"}}
             ELSE IF var.kind = "Class"
             THEN {SendOutcome(stack3, heap2, bx1, "Ok", b, FALSE, "owned")}
             ELSE {SendOutcome(stack3, heap3, bx1, "Ok", b, FALSE, "owned"),
                   SendOutcome(stack2, heap, bx1, "Abort", 0, FALSE, "leaked")}
        [] OTHER ->
             {SendOutcome(stack2, heap, bx1, "NoWrenClass", 0, FALSE, "leaked")}

\* The values the script variable can hold when the host looks it up.
VarValues(module, class) ==
    {NullVal, ClassVal(module, class), ObjectVal, StringVal("text")}

set_slot_new_foreign(module, class, T, slot, var, vmAlloc) ==
    /\ HostRuns
    /\ Len(foreignHeap) < MaxEnvs /\ Len(boxes) < MaxEnvs
    /\ \E o \in SendOutcomes(library, slots, foreignHeap, boxes,
                             module, class, T, slot, var, vmAlloc) :
         /\ slots' = o.slots
         /\ foreignHeap' = o.foreignHeap
         /\ boxes' = o.boxes
         /\ lastCall' = Some([op |-> "set_slot_new_foreign", module |-> module,
                              class |-> class, T |-> T, slot |-> slot,
                              var |-> var, vmAlloc |-> vmAlloc, result |-> o.result,
                              ref |-> o.ref, nullWrite |-> o.nullWrite,
                              object |-> o.object,
                              before |-> slots, boxesBefore |-> Len(boxes)])
    /\ UNCHANGED <<tramp, fiber>>

\* The host type a registered class was registered with: Module::class::<C>
\* stores C's trampolines and C's TypeId together (lib.rs 254-265).
Registered(module, class) ==
    IF library.some THEN get_foreign_class(library.val, module, class) ELSE None

VMCalls == tramp.pc = "idle" /\ lastCall = None

\* The VM constructs an instance of a foreign class: it calls the class's
\* allocate function with the class in slot 0.  _constructor up to the call of
\* the host initializer (lib.rs 306-315): the envelope is allocated in slot 0.
ConstructorEnter(module, class) ==
    /\ VMCalls /\ Registered(module, class).some
    /\ Len(foreignHeap) < MaxEnvs /\ Len(boxes) < MaxEnvs
    /\ foreignHeap' = Append(foreignHeap, FreshEnvelope)
    /\ slots' = <<ForeignVal(Len(foreignHeap) + 1)>>
    /\ tramp' = [pc |-> "body", kind |-> "constructor",
                 type |-> Registered(module, class).val.type_id,
                 wptr |-> Len(foreignHeap) + 1]
    /\ fiber' = NotAborted
    /\ lastCall' = None
    /\ UNCHANGED boxes

\* The VM calls a static foreign method: the class is in slot 0.  The static
\* trampoline up to the call of the host method (lib.rs 413-420).
StaticEnter(module, class) ==
    /\ VMCalls /\ Registered(module, class).some
    /\ slots' = <<ClassVal(module, class)>>
    /\ tramp' = [pc |-> "body", kind |-> "static",
                 type |-> Registered(module, class).val.type_id, wptr |-> 0]
    /\ fiber' = NotAborted
    /\ lastCall' = None
    /\ UNCHANGED <<foreignHeap, boxes>>

\* The VM calls an instance foreign method with a foreign object as receiver
\* in slot 0; which host type the envelope holds is not known to the VM.  The
\* instance trampoline whose receiver check passes (lib.rs 440-451).
InstanceEnter(module, class, e) ==
    /\ VMCalls /\ Registered(module, class).some
    /\ ~foreignHeap[e].freed
    /\ Downcast(foreignHeap[e], Registered(module, class).val.type_id).some
    /\ slots' = <<ForeignVal(e)>>
    /\ tramp' = [pc |-> "body", kind |-> "instance",
                 type |-> Registered(module, class).val.type_id, wptr |-> 0]
    /\ fiber' = NotAborted
    /\ lastCall' = None
    /\ UNCHANGED <<foreignHeap, boxes>>

\* The end of a trampoline after catch_unwind gave `r` (lib.rs 316-338,
\* 421-435, 453-467): the Err arm writes the message into slot 0 and aborts the
\* fiber; the constructor then boxes the object and fills the envelope.
TrampolineExit(t, r, outcome) ==
    /\ IF r.ok \/ r.unwinding
       THEN slots' = slots /\ fiber' = fiber
       ELSE /\ slots' = [slots EXCEPT ![1] = StringVal(ErrString(r.err))]
            /\ fiber' = abort_fiber(slots', 0)
    /\ IF r.ok /\ t.kind = "constructor"
       THEN /\ boxes' = Append(boxes, NewBox)
            /\ foreignHeap' = WriteEnvelope(foreignHeap, t.wptr, Len(boxes) + 1, t.type)
       ELSE UNCHANGED <<boxes, foreignHeap>>
    /\ tramp' = [pc |-> "returned", kind |-> t.kind, type |-> t.type, wptr |-> t.wptr,
                 outcome |-> outcome, unwound |-> r.unwinding]

\* The host initializer or method returns or panics.
TrampolineReturn(outcome) ==
    /\ tramp.pc = "body" /\ lastCall = None
    /\ TrampolineExit(tramp, catch_unwind(outcome), outcome)
    /\ lastCall' = None

\* The instance trampoline whose receiver check fails: expect() panics inside
\* catch_unwind before the host method is reached (lib.rs 447-451).
InstanceWrongReceiver(module, class, e) ==
    /\ VMCalls /\ Registered(module, class).some
    /\ ~foreignHeap[e].freed
    /\ ~Downcast(foreignHeap[e], Registered(module, class).val.type_id).some
    /\ LET r == catch_unwind(BodyPanic(ReceiverPanic))
           stack == <<ForeignVal(e)>> IN
         /\ slots' = IF r.unwinding THEN stack
                     ELSE [stack EXCEPT ![1] = StringVal(ErrString(r.err))]
         /\ fiber' = IF r.unwinding THEN NotAborted ELSE abort_fiber(slots', 0)
         /\ tramp' = [pc |-> "returned", kind |-> "instance",
                      type |-> Registered(module, class).val.type_id, wptr |-> 0,
                      outcome |-> BodyPanic(ReceiverPanic), unwound |-> r.unwinding]
    /\ lastCall' = None
    /\ UNCHANGED <<foreignHeap, boxes>>

\* The VM takes control back from the trampoline.
VMResume ==
    /\ tramp.pc = "returned" /\ lastCall = None
    /\ tramp' = Idle
    /\ lastCall' = None
    /\ UNCHANGED <<slots, foreignHeap, boxes, fiber>>

\* _destructor (lib.rs 342-350): the boxed value is dropped unless the object
\* pointer is null, and the pointer is nulled.
Destructor(heap, bx, e) ==
    IF heap[e].object # 0
    THEN [foreignHeap |-> [heap EXCEPT ![e].object = 0],
          boxes |-> [bx EXCEPT ![heap[e].object].drops = @ + 1]]
    ELSE [foreignHeap |-> heap, boxes |-> bx]

\* What the VM's finalization of an envelope can do: call _destructor, the
\* finalize function of the envelope's class; for an object that was made
\* with something else in the place of its class, also nothing at all.
FinalizeOutcomes(heap, bx, e) ==
    {Destructor(heap, bx, e)}
        \cup (IF heap[e].finalizer THEN {} ELSE {[foreignHeap |-> heap, boxes |-> bx]})

\* The VM's collector reclaims an envelope no slot refers to: it calls the
\* class's finalize function and frees the memory.
Finalize(e) ==
    /\ lastCall = None /\ ~foreignHeap[e].freed
    /\ \A i \in 1..Len(slots) : slots[i] # ForeignVal(e)
    /\ \E d \in FinalizeOutcomes(foreignHeap, boxes, e) :
         /\ foreignHeap' = [d.foreignHeap EXCEPT ![e].freed = TRUE]
         /\ boxes' = d.boxes
    /\ lastCall' = None
    /\ UNCHANGED <<slots, tramp, fiber>>

\* The (module, class) pairs the host and the VM name: the two registered
\* ones and a class of a module that is not registered.
ClassRefs == {<<"main", "A">>, <<"main", "B">>, <<"geo", "A">>}

SlotIds == 0..MaxSlots - 1

NextSlots ==
    \/ \E sl \in SlotIds : set_slot_null(sl) /\ UNCHANGED Others
    \/ \E sl \in SlotIds : set_slot_string(sl, "text") /\ UNCHANGED Others
    \/ \E T \in Types, sl \in SlotIds : get_slot_foreign(T, sl) /\ UNCHANGED Others
    \/ \E cr \in ClassRefs : ConstructorEnter(cr[1], cr[2]) /\ UNCHANGED Others
    \/ \E o \in BodyOutcomes : TrampolineReturn(o) /\ UNCHANGED Others
    \/ VMResume /\ UNCHANGED Others
    \/ CallReturn /\ UNCHANGED Others

NextForeign ==
    \/ NextSlots
    \/ \E cr \in ClassRefs, T \in Types, sl \in SlotIds, al \in BOOLEAN :
         \E v \in VarValues(cr[1], cr[2]) :
            set_slot_new_foreign(cr[1], cr[2], T, sl, v, al) /\ UNCHANGED Others
    \/ \E e \in 1..Len(foreignHeap) : Finalize(e) /\ UNCHANGED Others

NextTramp ==
    \/ NextSlots
    \/ \E cr \in ClassRefs : StaticEnter(cr[1], cr[2]) /\ UNCHANGED Others
    \/ \E cr \in ClassRefs, e \in 1..Len(foreignHeap) :
         InstanceEnter(cr[1], cr[2], e) /\ UNCHANGED Others
    \/ \E cr \in ClassRefs, e \in 1..Len(foreignHeap) :
         InstanceWrongReceiver(cr[1], cr[2], e) /\ UNCHANGED Others

\* The registries the foreign-object model runs with: none, and one that
\* registers the classes A and B of module main with the host types Counter
\* and Point.
ForeignLibraries ==
    {None,
     Some(ModuleLibrary_module(ModuleLibrary_new, "main",
            Module_class(Module_class(Module_new, "A", "Counter"), "B", "Point")))}

(***************************************************************************)
(* Claims about foreign envelopes and set_slot_new_foreign                 *)
(***************************************************************************)
\* A get_slot_foreign / get_slot_foreign_mut call has just returned.
GetReturned == lastCall.some /\ lastCall.val.op = "get_slot_foreign"

\* A set_slot_new_foreign call has just ended.
SendReturned == lastCall.some /\ lastCall.val.op = "set_slot_new_foreign"

\* C4: for a slot that holds a foreign envelope, get_slot_foreign::<T> gives a
\* reference exactly when the envelope's stored type tag is the tag of T (and
\* then it is the envelope's object); for every other tag it gives None.  The
\* envelopes include the one a constructor trampoline allocated whose
\* initializer has not returned or has panicked.
C4_GetSlotForeignIffTag ==
    GetReturned =>
        LET c == lastCall.val
            v == slots[c.slot + 1]
        IN v.kind = "Foreign" =>
             /\ c.found.some <=> foreignHeap[v.env].type_id = c.T
             /\ c.found.some => c.found.val = foreignHeap[v.env].object

\* get_slot_foreign::<T> has returned a reference for an envelope of tag T.
C4_Witness ==
    /\ GetReturned
    /\ slots[lastCall.val.slot + 1].kind = "Foreign"
    /\ foreignHeap[slots[lastCall.val.slot + 1].env].type_id = lastCall.val.T
    /\ lastCall.val.found.some

\* The result the three conditions of set_slot_new_foreign determine.
SendResultTable(module, class, T, var) ==
    LET rc == Registered(module, class) IN
    IF ~rc.some THEN "NoForeignClass"
    ELSE IF rc.val.type_id # T THEN "ClassMismatch"
    ELSE IF var.kind # "Class" THEN "NoWrenClass"
    ELSE "Ok"

\* C5: the result of set_slot_new_foreign::<T>(module, class, object, slot) is
\* NoForeignClass when (module, class) is not registered, ClassMismatch when it
\* is registered with another tag, NoWrenClass when the script variable does
\* not hold a class, and otherwise Ok, after which the target slot holds a
\* foreign object for which get_slot_foreign::<T> gives the injected value.
\* (The VM's allocation succeeds.)
C5_SendResultTable ==
    (SendReturned /\ lastCall.val.vmAlloc) =>
        LET c == lastCall.val IN
        /\ c.result = SendResultTable(c.module, c.class, c.T, c.var)
        /\ c.result = "Ok" =>
              /\ slots[c.slot + 1].kind = "Foreign"
              /\ Downcast(foreignHeap[slots[c.slot + 1].env], c.T) = Some(c.ref)

\* C6: when set_slot_new_foreign passes the registry, type-tag and script-class
\* checks and the VM's allocation gives a null envelope pointer, it returns
\* Err(NoMemory) and writes nothing through the null pointer.
C6_NoMemoryWithoutNullWrite ==
    (/\ SendReturned
     /\ ~lastCall.val.vmAlloc
     /\ SendResultTable(lastCall.val.module, lastCall.val.class,
                        lastCall.val.T, lastCall.val.var) = "Ok")
    => /\ lastCall.val.result = "NoMemory"
       /\ ~lastCall.val.nullWrite

\* The results of set_slot_new_foreign that are errors (ForeignSendError).
ForeignSendErrors == {"NoForeignClass", "ClassMismatch", "NoWrenClass", "NoMemory"}

\* C21: when set_slot_new_foreign returns an error, the native object passed
\* in has been dropped exactly once before the call returns, no box allocated
\* for it is left without an owner, and every slot other than slot 0 (the
\* target slot included) holds what it held before the call.
C21_ErrorReleasesObject ==
    (SendReturned /\ lastCall.val.result \in ForeignSendErrors) =>
        LET c == lastCall.val IN
        /\ c.object = "dropped"
        /\ \A b \in (c.boxesBefore + 1)..Len(boxes) : boxes[b].drops = 1
        /\ \A i \in 2..Len(c.before) : slots[i] = c.before[i]

(***************************************************************************)
(* Claim about the panic boundary of the trampolines                       *)
(***************************************************************************)
\* The message the panic boundary has to report for a payload.
PanicMessage(payload) ==
    IF payload.typ \in {"String", "&str"} THEN payload.msg
    ELSE "Non-string panic message"

\* C8: when the host body of a constructor, static or instance trampoline
\* panics (the receiver check of the instance trampoline included), the
\* trampoline has written the payload's message (or "Non-string panic
\* message") into slot 0, aborted the fiber with slot 0, and returned to the
\* VM without unwinding.
C8_PanicAbortsFiber ==
    (tramp.pc = "returned" /\ tramp.outcome.panic) =>
        /\ slots[1] = StringVal(PanicMessage(tramp.outcome.payload))
        /\ fiber = [aborted |-> TRUE, error |-> slots[1]]
        /\ ~tramp.unwound

\* The instance trampoline has returned to the VM after a panic.
C8_Witness ==
    /\ tramp.pc = "returned"
    /\ tramp.kind = "instance"
    /\ tramp.outcome.panic
    /\ fiber.aborted

(***************************************************************************)
(* Lifecycle: VMConfig::build, VMWrapper clone and drop, Drop for VM       *)
(***************************************************************************)
\* VMConfig::build (lib.rs 821-864): the UserData is boxed and leaked
\* (Box::into_raw, lib.rs 830-836), wrenNewVM gets it as config.userData
\* (lib.rs 857, 861), and the Rc<RefCell<VM>> is handed out in one VMWrapper.
\* `strong` is the Rc's strong count, `foreign` the number of foreign objects
\* on the VM's heap, the two `frees` count how often each was freed.
VMConfig_build ==
    [strong |-> 1, userData |-> "live", userDataFrees |-> 0,
     vm |-> "live", vmFrees |-> 0, foreign |-> 0]

InitLife == built = <<VMConfig_build>>

\* A further VMConfig::new().build().
build ==
    /\ Len(built) < MaxVMs
    /\ built' = Append(built, VMConfig_build)

\* #[derive(Clone)] on VMWrapper (lib.rs 651-652): Rc::clone of the EVM.
VMWrapper_clone(v) ==
    /\ built[v].strong >= 1 /\ built[v].strong < MaxOwners
    /\ built' = [built EXCEPT ![v].strong = @ + 1]

\* A foreign object is created on the heap of a running VM.
NewForeign(v) ==
    /\ built[v].strong >= 1 /\ built[v].vm = "live"
    /\ built[v].foreign < MaxEnvs
    /\ built' = [built EXCEPT ![v].foreign = @ + 1]

\* The drop of a VMWrapper that is not the last one: the Rc's count goes down.
VMWrapper_drop(v) ==
    /\ built[v].strong > 1
    /\ built' = [built EXCEPT ![v].strong = @ - 1]

\* The drop of the last VMWrapper runs Drop for VM (lib.rs 1137-1145) up to
\* the call of wrenFreeVM: the UserData is read back from the VM and freed
\* (lib.rs 1140-1141), then wrenFreeVM is entered (lib.rs 1142).
VM_drop(v) ==
    /\ built[v].strong = 1
    /\ built' = [built EXCEPT ![v].strong = 0,
                              ![v].userData = "freed",
                              ![v].userDataFrees = @ + 1,
                              ![v].vm = "freeing"]

\* wrenFreeVM frees the objects of the heap; for a foreign object it calls
\* the class's finalizer, _destructor (lib.rs 342-350).
FreeVMFinalize(v) ==
    /\ built[v].vm = "freeing" /\ built[v].foreign > 0
    /\ built' = [built EXCEPT ![v].foreign = @ - 1]

\* wrenFreeVM frees the VM itself and returns; Drop for VM ends.
FreeVMDone(v) ==
    /\ built[v].vm = "freeing" /\ built[v].foreign = 0
    /\ built' = [built EXCEPT ![v].vm = "freed", ![v].vmFrees = @ + 1]

NextLife ==
    \/ build /\ UNCHANGED NotLife
    \/ \E v \in 1..Len(built) : VMWrapper_clone(v) /\ UNCHANGED NotLife
    \/ \E v \in 1..Len(built) : NewForeign(v) /\ UNCHANGED NotLife
    \/ \E v \in 1..Len(built) : VMWrapper_drop(v) /\ UNCHANGED NotLife
    \/ \E v \in 1..Len(built) : VM_drop(v) /\ UNCHANGED NotLife
    \/ \E v \in 1..Len(built) : FreeVMFinalize(v) /\ UNCHANGED NotLife
    \/ \E v \in 1..Len(built) : FreeVMDone(v) /\ UNCHANGED NotLife

\* C9: over any sequence of build, clone and drop, the UserData and the WrenVM
\* of every VM are each freed at most once and only when no wrapper is left,
\* both have been freed once the teardown has ended, and the UserData is live
\* for as long as the VM exists, up to the end of wrenFreeVM.
C9_UserDataLivesAsLongAsVM ==
    \A v \in 1..Len(built) :
        /\ built[v].userDataFrees <= 1 /\ built[v].vmFrees <= 1
        /\ built[v].strong >= 1 => built[v].userData = "live" /\ built[v].vm = "live"
        /\ built[v].vm = "freed" => built[v].userDataFrees = 1 /\ built[v].vmFrees = 1
        /\ built[v].vm \in {"live", "freeing"} => built[v].userData = "live"

(***************************************************************************)
(* The typed slot API: slot setters and getters on every kind of value     *)
(***************************************************************************)
\* The bytes strings are made of: the zero byte, an ASCII letter, the two
\* bytes of a two-byte UTF-8 character, and a byte no UTF-8 text contains.
Bytes == {0, 104, 195, 169, 255}

ByteSeqs == UNION {[1..n -> Bytes] : n \in 0..MaxLen}

\* The length of the UTF-8 sequence a lead byte starts (0: not a lead byte).
Utf8Len(b) ==
    IF b < 128 THEN 1
    ELSE IF b >= 194 /\ b <= 223 THEN 2
    ELSE IF b >= 224 /\ b <= 239 THEN 3
    ELSE IF b >= 240 /\ b <= 244 THEN 4
    ELSE 0

IsContinuation(b) == b >= 128 /\ b <= 191

\* The number of bytes of the well-formed character at the head of bs, 0 when
\* there is none.
HeadChar(bs) ==
    IF bs = <<>> THEN 0
    ELSE LET n == Utf8Len(bs[1]) IN
         IF n = 0 \/ Len(bs) < n THEN 0
         ELSE IF \A i \in 2..n : IsContinuation(bs[i]) THEN n ELSE 0

\* A Rust String / &str is a well-formed UTF-8 byte sequence.
RECURSIVE IsUtf8(_)
IsUtf8(bs) ==
    IF bs = <<>> THEN TRUE
    ELSE IF HeadChar(bs) = 0 THEN FALSE
    ELSE IsUtf8(SubSeq(bs, HeadChar(bs) + 1, Len(bs)))

Strings == {bs \in ByteSeqs : IsUtf8(bs)}

\* U+FFFD REPLACEMENT CHARACTER in UTF-8.
Replacement == <<239, 191, 189>>

\* CStr::to_string_lossy().to_string() (lib.rs 985): well-formed characters
\* are kept, every ill-formed byte becomes U+FFFD.
RECURSIVE to_string_lossy(_)
to_string_lossy(bs) ==
    IF bs = <<>> THEN <<>>
    ELSE IF HeadChar(bs) = 0
    THEN Replacement \o to_string_lossy(Tail(bs))
    ELSE SubSeq(bs, 1, HeadChar(bs)) \o to_string_lossy(SubSeq(bs, HeadChar(bs) + 1, Len(bs)))

\* ffi::CStr::from_ptr (lib.rs 983): the bytes up to the first zero byte.  The
\* VM stores a string's bytes followed by a zero byte.
RECURSIVE CStr_from_ptr(_)
CStr_from_ptr(bs) ==
    IF bs = <<>> \/ bs[1] = 0 THEN <<>>
    ELSE <<bs[1]>> \o CStr_from_ptr(Tail(bs))

\* raw::c_char is i8: the byte as the VM hands it out.
AsCChar(b) == IF b > 127 THEN b - 256 ELSE b

\* `*ptr.offset(..) as u8` (lib.rs 967).
AsU8(c) == IF c < 0 THEN c + 256 ELSE c

NumVal(n) == [kind |-> "Num", num |-> n]

BoolVal(b) == [kind |-> "Bool", bool |-> b]

ListVal == [kind |-> "List"]

\* VM::set_slot_bool (lib.rs 903-907).
set_slot_bool(slot, val) ==
    /\ HostRuns /\ slot < Len(slots)
    /\ slots' = [slots EXCEPT ![slot + 1] = BoolVal(val)]
    /\ lastCall' = None
    /\ UNCHANGED <<foreignHeap, boxes, tramp, fiber>>

\* VM::set_slot_double (lib.rs 909-913).
set_slot_double(slot, val) ==
    /\ HostRuns /\ slot < Len(slots)
    /\ slots' = [slots EXCEPT ![slot + 1] = NumVal(val)]
    /\ lastCall' = None
    /\ UNCHANGED <<foreignHeap, boxes, tramp, fiber>>

\* VM::set_slot_new_list (lib.rs 1010-1014).
set_slot_new_list(slot) ==
    /\ HostRuns /\ slot < Len(slots)
    /\ slots' = [slots EXCEPT ![slot + 1] = ListVal]
    /\ lastCall' = None
    /\ UNCHANGED <<foreignHeap, boxes, tramp, fiber>>

\* VM::set_slot_bytes (lib.rs 921-925): wrenSetSlotBytes copies bytes.len()
\* bytes into a new VM string.
set_slot_bytes(slot, bytes) ==
    /\ HostRuns /\ slot < Len(slots)
    /\ slots' = [slots EXCEPT ![slot + 1] = StringVal(bytes)]
    /\ lastCall' = None
    /\ UNCHANGED <<foreignHeap, boxes, tramp, fiber>>

\* VM::get_variable (lib.rs 1002-1008) of a variable that holds `var`.
get_variable(slot, var) ==
    /\ HostRuns /\ slot < Len(slots)
    /\ slots' = [slots EXCEPT ![slot + 1] = var]
    /\ lastCall' = None
    /\ UNCHANGED <<foreignHeap, boxes, tramp, fiber>>

\* VM::ensure_slots(count) (lib.rs 891-895) called by the host.
EnsureSlots(count) ==
    /\ HostRuns /\ Len(slots) < count
    /\ slots' = ensure_slots(slots, count)
    /\ lastCall' = None
    /\ UNCHANGED <<foreignHeap, boxes, tramp, fiber>>

\* The record of a typed getter that has returned: `raw` says whether the
\* VM's raw typed accessor was called.
Got(name, slot, raw, found) ==
    [op |-> name, slot |-> slot, raw |-> raw, found |-> found]

\* VM::get_slot_bool (lib.rs 934-942).
GetSlotBool(v) ==
    IF get_slot_type(v) # "Bool" THEN [raw |-> FALSE, found |-> None]
    ELSE [raw |-> TRUE, found |-> Some(v.bool)]

\* VM::get_slot_double (lib.rs 944-952).
GetSlotDouble(v) ==
    IF get_slot_type(v) # "Num" THEN [raw |-> FALSE, found |-> None]
    ELSE [raw |-> TRUE, found |-> Some(v.num)]

\* VM::get_slot_bytes (lib.rs 954-973): length bytes are read one by one.
GetSlotBytes(v) ==
    IF get_slot_type(v) # "String" THEN [raw |-> FALSE, found |-> None]
    ELSE [raw |-> TRUE,
          found |-> Some([i \in 1..Len(v.str) |-> AsU8(AsCChar(v.str[i]))])]

\* VM::get_slot_string (lib.rs 975-987).
GetSlotString(v) ==
    IF get_slot_type(v) # "String" THEN [raw |-> FALSE, found |-> None]
    ELSE [raw |-> TRUE, found |-> Some(to_string_lossy(CStr_from_ptr(v.str)))]

get_slot_bool(slot) ==
    /\ HostRuns /\ slot < Len(slots)
    /\ LET r == GetSlotBool(slots[slot + 1]) IN
         lastCall' = Some(Got("get_slot_bool", slot, r.raw, r.found))
    /\ UNCHANGED <<slots, foreignHeap, boxes, tramp, fiber>>

get_slot_double(slot) ==
    /\ HostRuns /\ slot < Len(slots)
    /\ LET r == GetSlotDouble(slots[slot + 1]) IN
         lastCall' = Some(Got("get_slot_double", slot, r.raw, r.found))
    /\ UNCHANGED <<slots, foreignHeap, boxes, tramp, fiber>>

get_slot_bytes(slot) ==
    /\ HostRuns /\ slot < Len(slots)
    /\ LET r == GetSlotBytes(slots[slot + 1]) IN
         lastCall' = Some(Got("get_slot_bytes", slot, r.raw, r.found))
    /\ UNCHANGED <<slots, foreignHeap, boxes, tramp, fiber>>

get_slot_string(slot) ==
    /\ HostRuns /\ slot < Len(slots)
    /\ LET r == GetSlotString(slots[slot + 1]) IN
         lastCall' = Some(Got("get_slot_string", slot, r.raw, r.found))
    /\ UNCHANGED <<slots, foreignHeap, boxes, tramp, fiber>>

\* VM::get_slot_foreign_mut::<T> (lib.rs 1048-1064) with the record of a typed
\* getter: wrenGetSlotForeign is called first, whatever the slot holds.
get_slot_foreign_mut(T, slot) ==
    /\ HostRuns /\ slot < Len(slots)
    /\ \E r \in GetSlotForeignOutcomes(slots, foreignHeap, T, slot) :
         lastCall' = Some(Got("get_slot_foreign_mut", slot, TRUE, r))
    /\ UNCHANGED <<slots, foreignHeap, boxes, tramp, fiber>>

NextSlotApi ==
    \/ \E n \in 1..MaxSlots : EnsureSlots(n) /\ UNCHANGED Others
    \/ \E sl \in SlotIds : set_slot_null(sl) /\ UNCHANGED Others
    \/ \E sl \in SlotIds, b \in BOOLEAN : set_slot_bool(sl, b) /\ UNCHANGED Others
    \/ \E sl \in SlotIds, n \in {0, 1} : set_slot_double(sl, n) /\ UNCHANGED Others
    \/ \E sl \in SlotIds : set_slot_new_list(sl) /\ UNCHANGED Others
    \/ \E sl \in SlotIds, bs \in ByteSeqs : set_slot_bytes(sl, bs) /\ UNCHANGED Others
    \/ \E sl \in SlotIds, s \in Strings : set_slot_string(sl, s) /\ UNCHANGED Others
    \/ \E sl \in SlotIds, v \in {ClassVal("main", "A"), ObjectVal} :
         get_variable(sl, v) /\ UNCHANGED Others
    \/ \E cr \in ClassRefs : ConstructorEnter(cr[1], cr[2]) /\ UNCHANGED Others
    \/ TrampolineReturn(BodyOk) /\ UNCHANGED Others
    \/ VMResume /\ UNCHANGED Others
    \/ \E sl \in SlotIds : get_slot_bool(sl) /\ UNCHANGED Others
    \/ \E sl \in SlotIds : get_slot_double(sl) /\ UNCHANGED Others
    \/ \E sl \in SlotIds : get_slot_bytes(sl) /\ UNCHANGED Others
    \/ \E sl \in SlotIds : get_slot_string(sl) /\ UNCHANGED Others
    \/ \E sl \in SlotIds, T \in Types : get_slot_foreign_mut(T, sl) /\ UNCHANGED Others
    \/ CallReturn /\ UNCHANGED Others

\* A typed getter has just returned.
GetterReturned(name) == lastCall.some /\ lastCall.val.op = name

\* C11: a string written with set_slot_string is read back unchanged by
\* get_slot_string and a byte sequence written with set_slot_bytes is read
\* back unchanged by get_slot_bytes, zero bytes and bytes above 127 included.
\* (A slot holds the bytes of the last write to it; a string is a byte
\* sequence that is well-formed UTF-8.)
C11_SlotRoundTrip ==
    /\ GetterReturned("get_slot_bytes") =>
         LET v == slots[lastCall.val.slot + 1] IN
         v.kind = "String" => lastCall.val.found = Some(v.str)
    /\ GetterReturned("get_slot_string") =>
         LET v == slots[lastCall.val.slot + 1] IN
         (v.kind = "String" /\ IsUtf8(v.str)) => lastCall.val.found = Some(v.str)

\* The type a typed getter gives a value for.
GetterType ==
    [get_slot_bool |-> "Bool", get_slot_double |-> "Num", get_slot_bytes |-> "String",
     get_slot_string |-> "String", get_slot_foreign_mut |-> "Foreign"]

\* C14: every typed getter checks the slot's classification first: on a slot
\* of another type it returns None and has not called the VM's raw accessor.
C14_GettersCheckType ==
    (lastCall.some /\ lastCall.val.op \in DOMAIN GetterType) =>
        LET c == lastCall.val IN
        get_slot_type(slots[c.slot + 1]) # GetterType[c.op] =>
            c.found = None /\ ~c.raw

(***************************************************************************)
(* FunctionSignature: canonical string and arity                           *)
(***************************************************************************)
\* FunctionSignature::arity (lib.rs 642-648).
arity(sig) ==
    CASE sig.kind = "Function" -> sig.arity
      [] sig.kind = "Getter"   -> 0
      [] sig.kind = "Setter"   -> 1

\* The characters names are made of, and the names: any String is accepted as
\* a name (lib.rs 619-632), the empty one and ones with an underscore included.
NameChars == {"a", "_", "=", "("}

Names == UNION {[1..n -> NameChars] : n \in 0..MaxName}

AllSignatures ==
    {Function(n, a) : n \in Names, a \in 0..MaxArity}
        \cup {Getter(n) : n \in Names} \cup {Setter(n) : n \in Names}

InitFn == lastFn = None

\* The host asks a signature for its canonical string and its arity.
SignatureCall(sig) ==
    /\ lastFn = None
    /\ lastFn' = Some([fn |-> "FunctionSignature", sig |-> sig,
                       string |-> as_wren_string(sig), arity |-> arity(sig)])

\* The call returns.
FnReturn ==
    /\ lastFn.some
    /\ lastFn' = None

NextSig ==
    \/ \E sig \in AllSignatures : SignatureCall(sig) /\ UNCHANGED NotFn
    \/ FnReturn /\ UNCHANGED NotFn

\* The number of underscores in a string.
Underscores(str) == Cardinality({i \in 1..Len(str) : str[i] = "_"})

\* A parameter list of n underscores separated by commas, in parentheses.
IsParamList(str, n) ==
    /\ Len(str) = (IF n = 0 THEN 2 ELSE 2 * n + 1)
    /\ str[1] = "(" /\ str[Len(str)] = ")"
    /\ \A i \in 2..Len(str) - 1 : str[i] = (IF i % 2 = 0 THEN "_" ELSE ",")

\* The part of a canonical string that follows the name.
AfterName(c) == SubSeq(c.string, Len(c.sig.name) + 1, Len(c.string))

SigReturned == lastFn.some /\ lastFn.val.fn = "FunctionSignature"

\* C12 (as amended): the canonical string of Function{name, arity} is name
\* followed by '(', arity underscores separated by commas, and ')'; of
\* Getter(name) it is name; of Setter(name) it is name followed by "=(_)".  The
\* arity() of a Getter is 0 and of a Setter is 1, and arity() equals the number
\* of underscores in the part of the canonical string that follows the name.
C12_CanonicalString ==
    SigReturned =>
        LET c == lastFn.val IN
        /\ SubSeq(c.string, 1, Len(c.sig.name)) = c.sig.name
        /\ c.sig.kind = "Function" =>
             IsParamList(AfterName(c), c.sig.arity) /\ c.arity = c.sig.arity
        /\ c.sig.kind = "Getter" => AfterName(c) = <<>> /\ c.arity = 0
        /\ c.sig.kind = "Setter" => AfterName(c) = <<"=", "(", "_", ")">> /\ c.arity = 1
        /\ c.arity = Underscores(AfterName(c))

\* The canonical string of a function of two parameters has been computed.
C12_Witness ==
    /\ SigReturned
    /\ lastFn.val.sig = Function(<<"a">>, 2)
    /\ lastFn.val.string = <<"a", "(", "_", ",", "_", ")">>

\* C12 as stated: the arity() of a Getter or Setter equals the number of
\* underscores in its canonical string.
C12_ArityIsUnderscoreCount ==
    (SigReturned /\ lastFn.val.sig.kind \in {"Getter", "Setter"}) =>
        lastFn.val.arity = Underscores(lastFn.val.string)

(***************************************************************************)
(* resolve-module: wren_canonicalize                                       *)
(***************************************************************************)
\* '@', the marker of a relative import, and '/'.
Marker == 64

Slash == 47

\* The C strings the VM passes as importer and name: byte sequences without a
\* zero byte (a Wren string literal can hold any byte).
CStrings == UNION {[1..n -> {Marker, 104, 195, 169, 255}] : n \in 0..MaxLen}

\* wren_canonicalize (lib.rs 120-134): both arguments are converted with
\* to_string_lossy; a name whose first character is '@' gives a new string
\* made of the converted importer, '/', and the converted name without its
\* first character; any other name is returned as the pointer that came in.
wren_canonicalize(importer, name) ==
    LET _importer == to_string_lossy(importer)
        _name == to_string_lossy(name)
    IN IF _name # <<>> /\ _name[1] = Marker
       THEN _importer \o <<Slash>> \o Tail(_name)
       ELSE name

\* VMConfig::build (lib.rs 849-853): resolveModuleFn is wren_canonicalize when
\* enable_relative_import is set and is left unset otherwise; without it the
\* VM imports the name as written.
ResolveModule(enable_relative_import, importer, name) ==
    /\ lastFn = None
    /\ lastFn' = Some([fn |-> "resolveModuleFn",
                       enable_relative_import |-> enable_relative_import,
                       registered |-> enable_relative_import,
                       importer |-> importer, name |-> name,
                       resolved |-> IF enable_relative_import
                                    THEN wren_canonicalize(importer, name)
                                    ELSE name])

NextResolve ==
    \/ \E e \in BOOLEAN, i \in CStrings, n \in CStrings :
         ResolveModule(e, i, n) /\ UNCHANGED NotFn
    \/ FnReturn /\ UNCHANGED NotFn

\* C13: resolve-module is registered only when enable_relative_import is
\* true; when registered, a name that begins with '@' resolves to importer,
\* "/" and the name without that one leading '@', and every other name
\* resolves to itself.
C13_ResolveModule ==
    (lastFn.some /\ lastFn.val.fn = "resolveModuleFn") =>
        LET c == lastFn.val IN
        /\ c.registered <=> c.enable_relative_import
        /\ c.registered =>
             c.resolved = (IF c.name # <<>> /\ c.name[1] = Marker
                           THEN c.importer \o <<Slash>> \o Tail(c.name)
                           ELSE c.name)

(***************************************************************************)
(* The borrow guard: VMWrapper operations and the RefCell around the VM    *)
(***************************************************************************)
\* The holders of the Rc<RefCell<VM>>: the wrapper build returned and a clone.
Holders == {"wrapper", "clone"}

\* The operations of VMWrapper that act on the raw VM (lib.rs 655-747).
\* `call` is make_call_handle followed by call_handle; `execute` runs a host
\* closure that writes a slot.
ScriptOps == {"interpret", "call", "call_handle"}

WrapperOps == ScriptOps \cup {"set_slot_handle", "collect_garbage", "execute"}

\* The callbacks through which the VM runs host code while a script runs: a
\* foreign method, the printer, the module loader.
Callbacks == {"foreign", "print", "load"}

\* RefCell::borrow (lib.rs 661, 689, 720, 735, 746; 314, 419, 446): a shared
\* borrow is refused only while the cell is mutably borrowed.
RefCell_borrow(flag) ==
    IF flag < 0 THEN [ok |-> FALSE, flag |-> flag]
    ELSE [ok |-> TRUE, flag |-> flag + 1]

\* VMConfig::build (lib.rs 861-863): the borrow_mut that stores the raw VM has
\* ended when the wrapper is returned.
InitBorrow ==
    /\ borrowFlag = 0
    /\ inFlight = <<>>

\* Host code is running: at top level, inside a callback, or inside the
\* closure of execute.
HostCodeRuns ==
    \/ inFlight = <<>>
    \/ /\ inFlight # <<>>
       /\ LET top == inFlight[Len(inFlight)] IN
          /\ top.reached
          /\ top.kind = "callback" \/ top.name = "execute"

\* A holder starts an operation: the cell is borrowed and, if the borrow is
\* granted, the raw VM is entered (wrenInterpret, wrenCall, wrenSetSlotHandle,
\* wrenCollectGarbage, or a slot write of the closure).  A refused borrow
\* panics before the raw VM is reached.
OpBegin(name, holder) ==
    /\ HostCodeRuns /\ Len(inFlight) < MaxDepth
    /\ LET b == RefCell_borrow(borrowFlag) IN
       /\ borrowFlag' = b.flag
       /\ inFlight' = Append(inFlight, [kind |-> "op", name |-> name, holder |-> holder,
                                        reached |-> b.ok, borrowed |-> b.ok])

\* The VM, running a script, calls back into the host.  The foreign
\* trampolines borrow the cell for the body (lib.rs 314, 419, 446); wren_print
\* and wren_load_module do not.
CallbackBegin(name) ==
    /\ inFlight # <<>> /\ Len(inFlight) < MaxDepth
    /\ LET top == inFlight[Len(inFlight)] IN
         top.kind = "op" /\ top.name \in ScriptOps /\ top.reached
    /\ LET b == IF name = "foreign" THEN RefCell_borrow(borrowFlag)
                ELSE [ok |-> TRUE, flag |-> borrowFlag] IN
       /\ borrowFlag' = b.flag
       /\ inFlight' = Append(inFlight, [kind |-> "callback", name |-> name,
                                        holder |-> "vm", reached |-> b.ok,
                                        borrowed |-> b.ok /\ name = "foreign"])

\* The innermost operation or callback returns (or unwinds, when its borrow
\* was refused); its borrow ends.
Return ==
    /\ inFlight # <<>>
    /\ borrowFlag' = IF inFlight[Len(inFlight)].borrowed THEN borrowFlag - 1 ELSE borrowFlag
    /\ inFlight' = SubSeq(inFlight, 1, Len(inFlight) - 1)

NextBorrow ==
    \/ \E n \in WrapperOps, h \in Holders : OpBegin(n, h) /\ UNCHANGED NotBorrow
    \/ \E c \in Callbacks : CallbackBegin(c) /\ UNCHANGED NotBorrow
    \/ Return /\ UNCHANGED NotBorrow

\* C15: an operation on the VM that is started while another one on the same
\* VM has not returned, through the same or another clone of the wrapper, is
\* stopped by the borrow guard before it reaches the raw VM: at most one
\* operation is inside the raw VM at any time.
C15_OverlapFailsFast ==
    \A i, j \in 1..Len(inFlight) :
        (/\ i < j
         /\ inFlight[i].kind = "op" /\ inFlight[i].reached
         /\ inFlight[j].kind = "op")
        => ~inFlight[j].reached

(***************************************************************************)
(* The registry as a snapshot: VMConfig::library and build                 *)
(***************************************************************************)
\* A configuration that keeps the caller's object instead of a copy of it.
VMConfig_library_shared(l) == l

\* VMConfig::library(&ModuleLibrary) (lib.rs 791-794): self.library =
\* Some(l.clone()), a new object; ModuleLibrary, Module and RuntimeClass derive
\* Clone and hold their entries by value (lib.rs 198-233), so the clone shares
\* nothing with `l`.  Objects are numbered: the host's own is 1.
VMConfig_library(l) == l + 1

\* VMConfig::build (lib.rs 830-836) moves the configured library into
\* UserData; the host keeps its own object.
InitSnapshot ==
    /\ original = library
    /\ libraryRef = VMConfig_library(1)
    /\ builtFrom = library

\* The host calls module(name, modl) on its own ModuleLibrary after the build
\* (lib.rs 211-213); modl has been filled by Module::class (lib.rs 254-265).
\* UserData.library changes with it only if it is the same object.
OriginalModule(name, modl) ==
    /\ original.some
    /\ original' = Some(ModuleLibrary_module(original.val, name, modl))
    /\ library' = IF libraryRef = 1 THEN original' ELSE library
    /\ UNCHANGED <<libraryRef, builtFrom, lastBind>>

\* wren_bind_foreign_class (lib.rs 88-106) as a function of the registry.
BindForeignClass(lib, module, class) ==
    LET rc == IF lib.some THEN get_foreign_class(lib.val, module, class) ELSE None IN
    IF rc.some
    THEN [allocate |-> Some(rc.val.construct), finalize |-> Some(rc.val.destruct)]
    ELSE [allocate |-> None, finalize |-> None]

\* The VM meets a foreign class and asks the host for its allocate and
\* finalize functions.
wren_bind_foreign_class(module, class) ==
    /\ lastBind = None
    /\ lastBind' = Some([module |-> module, class |-> class, is_static |-> FALSE,
                         sgn |-> <<>>, pointer |-> None,
                         fcm |-> BindForeignClass(library, module, class)])
    /\ UNCHANGED library

NextSnapshot ==
    \/ \E n \in ModuleNames, modl \in Modules :
         OriginalModule(n, modl) /\ UNCHANGED NotSnapshot
    \/ \E m \in ModuleNames, c \in ClassNames, st \in BOOLEAN, sg \in QueryStrings :
         wren_bind_foreign_method(m, c, st, sg)
            /\ UNCHANGED <<NotSnapshot, original, libraryRef, builtFrom>>
    \/ \E m \in ModuleNames, c \in ClassNames :
         wren_bind_foreign_class(m, c)
            /\ UNCHANGED <<NotSnapshot, original, libraryRef, builtFrom>>
    \/ BindReturn /\ UNCHANGED <<NotSnapshot, original, libraryRef, builtFrom>>

\* The registries a VM is built with in the snapshot model: an empty one and
\* the one with the classes A and B of module main.
SnapshotLibraries == (ForeignLibraries \ {None}) \cup {Some(ModuleLibrary_new)}

\* C16: the registry of a VM is the ModuleLibrary as it was when the VM was
\* built: whatever module() and class() do to the host's ModuleLibrary later,
\* and whatever the VM looks up, bind-foreign-method, bind-foreign-class and
\* the lookup of set_slot_new_foreign answer from the registry of build time.
C16_RegistryIsSnapshot ==
    /\ library = builtFrom
    /\ \A m \in ModuleNames, c \in ClassNames :
         Registered(m, c) = get_foreign_class(builtFrom.val, m, c)
    /\ lastBind.some =>
         IF "fcm" \in DOMAIN lastBind.val
         THEN lastBind.val.fcm = BindForeignClass(builtFrom, lastBind.val.module,
                                                  lastBind.val.class)
         ELSE lastBind.val.pointer =
                BindForeignMethod(builtFrom, lastBind.val.module, lastBind.val.class,
                                  lastBind.val.is_static, lastBind.val.sgn)

\* The host has changed its ModuleLibrary after the build and the VM has
\* answered a lookup that the two registries answer differently.
C16_Witness ==
    /\ original # builtFrom
    /\ lastBind.some
    /\ "fcm" \in DOMAIN lastBind.val
    /\ lastBind.val.fcm # BindForeignClass(original, lastBind.val.module,
                                           lastBind.val.class)

(***************************************************************************)
(* Claim about finalization                                                *)
(***************************************************************************)
\* The envelopes a native value has been placed into.
Filled == {e \in 1..Len(foreignHeap) : foreignHeap[e].type_id # ZeroTag}

\* C17: the native value placed into an envelope, by the constructor
\* trampoline or by a successful set_slot_new_foreign, is freed by the
\* finalization of the envelope exactly once: no value is dropped twice, a
\* finalized envelope has had its value dropped, a second run of the finalizer
\* on an envelope drops nothing, and the finalizer drops nothing for an
\* envelope whose initializer panicked.
C17_FinalizedExactlyOnce ==
    /\ \A b \in 1..Len(boxes) : boxes[b].drops <= 1
    /\ \A e \in Filled : foreignHeap[e].freed => foreignHeap[e].object = 0
    /\ Cardinality({b \in 1..Len(boxes) : boxes[b].drops = 1})
         = Cardinality({e \in Filled : foreignHeap[e].freed})
    /\ \A e \in 1..Len(foreignHeap) :
         LET d1 == Destructor(foreignHeap, boxes, e)
             d2 == Destructor(d1.foreignHeap, d1.boxes, e)
         IN /\ d2 = d1
            /\ e \notin Filled => d1.boxes = boxes

(***************************************************************************)
(* The allocator override (lib.rs 25-40)                                   *)
(***************************************************************************)
\* A pointer is 0 (null) or the index of a block.  Layout(size) is
\* Layout::from_size_align(size, 8): only its size matters here.
NullPtr == 0

Sizes == 0..MaxSize

InitAlloc == blocks = <<>> /\ lastAlloc = None

LivePtrs == {p \in 1..Len(blocks) : blocks[p].live}

AllocResult(bl, ret) == [blocks |-> bl, ret |-> ret]

\* std::alloc::alloc_zeroed(layout).  A layout of size zero is outside the
\* contract of GlobalAlloc::alloc: the allocator may answer null or hand out
\* a block of its own (posix_memalign(.., 8, 0) does).
alloc_zeroed(bl, size) ==
    LET fresh == AllocResult(Append(bl, [live |-> TRUE, size |-> size]), Len(bl) + 1) IN
    IF size = 0 THEN {AllocResult(bl, NullPtr), fresh} ELSE {fresh}

\* std::alloc::dealloc(ptr, layout).  The layout has to be the one the block
\* was allocated with; with another one the allocator may release the block
\* (free ignores the layout) or fail to find it.
dealloc(bl, ptr, size) ==
    LET freed == [bl EXCEPT ![ptr].live = FALSE] IN
    IF bl[ptr].size = size THEN {freed} ELSE {freed, bl}

\* std::alloc::realloc(ptr, layout, new_size): the block is resized in place
\* or moved to a new block, the old one being released.
realloc(bl, ptr, size, new_size) ==
    {AllocResult([bl EXCEPT ![ptr].size = new_size], ptr)}
        \cup (IF Len(bl) < MaxBlocks
              THEN {AllocResult(Append([bl EXCEPT ![ptr].live = FALSE],
                                       [live |-> TRUE, size |-> new_size]),
                                Len(bl) + 1)}
              ELSE {})

\* wren_realloc(memory, new_size), lib.rs 25-40.
ReallocOutcomes(bl, memory, new_size) ==
    IF memory = NullPtr
    THEN alloc_zeroed(bl, new_size)
    ELSE IF new_size = 0
         THEN {AllocResult(b2, NullPtr) : b2 \in dealloc(bl, memory, 0)}
         ELSE realloc(bl, memory, new_size, new_size)

wren_realloc(memory, new_size) ==
    /\ lastAlloc = None
    /\ memory = NullPtr => Len(blocks) < MaxBlocks
    /\ \E r \in ReallocOutcomes(blocks, memory, new_size) :
         /\ blocks' = r.blocks
         /\ lastAlloc' = Some([memory |-> memory, new_size |-> new_size, ret |-> r.ret])

\* The VM goes on after the allocator has answered.
AllocReturn ==
    /\ lastAlloc # None
    /\ lastAlloc' = None
    /\ UNCHANGED blocks

NextAlloc ==
    \/ \E memory \in {NullPtr} \cup LivePtrs, new_size \in Sizes :
         wren_realloc(memory, new_size) /\ UNCHANGED NotAlloc
    \/ AllocReturn /\ UNCHANGED NotAlloc

Live(p) == p # NullPtr /\ blocks[p].live

\* C18: wren_realloc dispatches on (memory, new_size): null and new_size > 0
\* allocates a block of new_size; non-null and new_size = 0 frees the block and
\* returns null; non-null and new_size > 0 resizes the block; and with
\* new_size = 0 the result is never a live allocation.
C18_AllocatorDispatch ==
    lastAlloc.some =>
        LET c == lastAlloc.val IN
        /\ (c.memory = NullPtr /\ c.new_size > 0)
             => Live(c.ret) /\ blocks[c.ret].size = c.new_size
        /\ (c.memory # NullPtr /\ c.new_size = 0)
             => c.ret = NullPtr /\ ~blocks[c.memory].live
        /\ (c.memory # NullPtr /\ c.new_size > 0)
             => /\ Live(c.ret) /\ blocks[c.ret].size = c.new_size
                /\ c.ret # c.memory => ~blocks[c.memory].live
        /\ c.new_size = 0 => ~Live(c.ret)

(***************************************************************************)
(* The print and load-module callbacks (lib.rs 63-67, 108-118)             *)
(***************************************************************************)
InitCallback == lastCallback = None /\ printed = <<>>

\* What the host's Printer::print or ModuleScriptLoader::load_script does:
\* it returns (the loader with None or Some(source)) or it panics.
Returns(v) == [panic |-> FALSE, val |-> v]

Panics == [panic |-> TRUE]

PrinterOutcomes == {Returns(<<>>), Panics}

LoaderOutcomes == {Returns(None), Panics} \cup {Returns(Some(src)) : src \in Strings}

\* ffi::CString::new (lib.rs 114): Err when the bytes hold a zero byte.
CString_new(bs) ==
    IF \E i \in 1..Len(bs) : bs[i] = 0 THEN [ok |-> FALSE] ELSE [ok |-> TRUE, val |-> bs]

\* How a panic leaves an extern "C" function that has no catch_unwind: it
\* unwinds into the frames of the VM, or the runtime aborts the process at the
\* boundary; which one depends on the compiler.
EscapingPanic == {"unwind", "abort"}

Left(fn, arg, exit, ret) == [fn |-> fn, arg |-> arg, exit |-> exit, ret |-> ret]

\* wren_print (lib.rs 63-67): the message is converted and given to the
\* printer.
wren_print(message, printer) ==
    /\ lastCallback = None
    /\ LET text == to_string_lossy(CStr_from_ptr(message)) IN
       /\ printed' = text
       /\ IF printer.panic
          THEN \E x \in EscapingPanic :
                   lastCallback' = Some(Left("wren_print", text, x, None))
          ELSE lastCallback' = Some(Left("wren_print", text, "return", None))

\* wren_load_module (lib.rs 108-118): None of the loader is the null pointer,
\* Some(source) is converted with CString::new, whose failure panics.
wren_load_module(name, loader) ==
    /\ lastCallback = None /\ UNCHANGED printed
    /\ LET module_name == to_string_lossy(CStr_from_ptr(name)) IN
       IF loader.panic
       THEN \E x \in EscapingPanic :
                lastCallback' = Some(Left("wren_load_module", module_name, x, None))
       ELSE IF ~loader.val.some
       THEN lastCallback' = Some(Left("wren_load_module", module_name, "return", None))
       ELSE IF CString_new(loader.val.val).ok
       THEN lastCallback' = Some(Left("wren_load_module", module_name, "return",
                                      Some(CString_new(loader.val.val).val)))
       ELSE \E x \in EscapingPanic :
                lastCallback' = Some(Left("wren_load_module", module_name, x, None))

\* The VM goes on after a callback that returned.
CallbackReturn ==
    /\ lastCallback # None /\ lastCallback.val.exit = "return"
    /\ lastCallback' = None
    /\ UNCHANGED printed

NextCallback ==
    \/ \E message \in ByteSeqs, p \in PrinterOutcomes :
         wren_print(message, p) /\ UNCHANGED NotCallback
    \/ \E name \in ByteSeqs, l \in LoaderOutcomes :
         wren_load_module(name, l) /\ UNCHANGED NotCallback
    \/ CallbackReturn /\ UNCHANGED NotCallback

\* C19: the print and load-module callbacks always return normally to the
\* VM, whatever the printer or the loader does: no panic leaves them.
C19_NoUnwindFromCallbacks ==
    lastCallback.some => lastCallback.val.exit = "return"

(***************************************************************************)
(* The panic hook and the trampolines (lib.rs 313-332, 418-436, 445-467)   *)
(***************************************************************************)
DefaultHook == "default"

\* Box::new(|_| {}) of the trampolines: a hook that prints nothing.
SilentHook == "silent"

\* The hooks the host application can have installed itself.
HostHooks == {DefaultHook, "custom"}

TrampolineKinds == {"constructor", "static", "instance"}

InitHook == hook = DefaultHook /\ nesting = <<>> /\ lastExit = None

\* std::panic::set_hook: the hook is replaced.
set_hook(h) == h

\* std::panic::take_hook: the installed hook is handed to the caller and the
\* default hook is registered in its place.
take_hook == [taken |-> hook, hook |-> DefaultHook]

\* The host application installs a hook of its own while no script runs.
HostSetsHook(h) ==
    /\ nesting = <<>> /\ lastExit = None /\ hook # h
    /\ hook' = set_hook(h)
    /\ UNCHANGED <<nesting, lastExit>>

\* A trampoline is entered, from the host's call or from the body of another
\* trampoline: set_hook(Box::new(|_| {})) and then the host body starts
\* (lib.rs 313, 418, 445).
TrampolineBegin(kind) ==
    /\ Len(nesting) < MaxNest /\ lastExit = None
    /\ nesting' = Append(nesting, [kind |-> kind, found |-> hook, noise |-> FALSE])
    /\ hook' = set_hook(SilentHook)
    /\ UNCHANGED lastExit

\* The innermost body panics: the installed hook runs before catch_unwind
\* gets the payload.  `noise` records that a hook other than the silent one
\* ran.
BodyPanics ==
    /\ nesting # <<>> /\ lastExit = None
    /\ ~nesting[Len(nesting)].noise
    /\ hook # SilentHook
    /\ nesting' = [nesting EXCEPT ![Len(nesting)].noise = TRUE]
    /\ UNCHANGED <<hook, lastExit>>

\* The innermost trampoline ends: drop(take_hook()) (lib.rs 331, 435, 467).
TrampolineEnd ==
    /\ nesting # <<>> /\ lastExit = None
    /\ hook' = take_hook.hook
    /\ nesting' = SubSeq(nesting, 1, Len(nesting) - 1)
    /\ lastExit' = IF Len(nesting) = 1
                   THEN Some([before |-> nesting[1].found, after |-> take_hook.hook])
                   ELSE None

\* The host goes on after the outermost trampoline.
HostResumes ==
    /\ lastExit # None
    /\ lastExit' = None
    /\ UNCHANGED <<hook, nesting>>

NextHook ==
    \/ \E h \in HostHooks : HostSetsHook(h) /\ UNCHANGED NotHook
    \/ \E k \in TrampolineKinds : TrampolineBegin(k) /\ UNCHANGED NotHook
    \/ BodyPanics /\ UNCHANGED NotHook
    \/ TrampolineEnd /\ UNCHANGED NotHook
    \/ HostResumes /\ UNCHANGED NotHook

\* C20: a trampoline leaves the panic hook unchanged: when the outermost
\* trampoline returns the hook is the one that was installed before it was
\* entered, and while the body of any trampoline is running the silencing
\* hook is the one in effect.
C20_HookUnchanged ==
    /\ lastExit.some => lastExit.val.after = lastExit.val.before
    /\ nesting # <<>> => hook = SilentHook

InitWith(libs) ==
    /\ InitErr
    /\ InitHandle
    /\ InitBind(libs)
    /\ InitForeign
    /\ InitLife
    /\ InitFn
    /\ InitBorrow
    /\ InitSnapshot /\ InitAlloc /\ InitCallback /\ InitHook

\* The VM of VMConfig::new().build().
Init == InitWith({None})

SpecErr == Init /\ [][NextErr]_vars

SpecHandle == Init /\ [][NextHandle]_vars

SpecBind == InitWith(Libraries) /\ [][NextBind]_vars

SpecForeign == InitWith(ForeignLibraries) /\ [][NextForeign]_vars

SpecTramp == InitWith(ForeignLibraries) /\ [][NextTramp]_vars

SpecLife == Init /\ [][NextLife]_vars

SpecSlot == InitWith(ForeignLibraries) /\ [][NextSlotApi]_vars

SpecSig == Init /\ [][NextSig]_vars

SpecResolve == Init /\ [][NextResolve]_vars

SpecBorrow == Init /\ [][NextBorrow]_vars

SpecSnapshot == InitWith(SnapshotLibraries) /\ [][NextSnapshot]_vars

SpecAlloc == Init /\ [][NextAlloc]_vars

SpecCallback == Init /\ [][NextCallback]_vars

SpecHook == Init /\ [][NextHook]_vars

====
